---- MODULE Spec2Model ----
(***************************************************************************)
(* Model of labjacksa.py: the StreamReader acquisition controller, its     *)
(* collection thread (_acquire_loop) and the single polling consumer       *)
(* (LJSAApp._poll and the StreamReader methods it calls).                  *)
(*                                                                         *)
(* Both actors are sequential programs; every step below is one access to  *)
(* state shared between them (an Event, the deque, an attribute of the     *)
(* StreamReader) or one call of the device, so that every interleaving the *)
(* Python interpreter can produce is a behaviour of the model.             *)
(***************************************************************************)
EXTENDS Integers, Sequences, FiniteSets, TLC

\* ------------------------------------------------------------------ bounds
MAXSAMPLERATE == 50000

\* Thread objects that can exist side by side (identities of dead threads
\* are reused).
MaxThreads == 2
\* The age of a packet is counted up to MaxAge.
MaxAge == 2

Threads == 1..MaxThreads
NoThread == 0
NoArg == 0

\* Inputs of set_channels and set_sampling.
ChannelLists == {<< >>, <<0>>, <<0, 2>>}
Rates == {5000, 30000}
Times == {1, 2}
\* numPackets * streamSamplesPerPacket of one result of next(stream).
PacketSizes == {30000}
\* raw['missed'] of one result of next(stream): every result reports one
\* missed sample, so that the dropped count of a window tells how many
\* results it sums.
MissedCounts == {1}

VARIABLES
    \* --- StreamReader attributes
    buffer,        \* self.buffer: deque of raw results
    data_request,  \* self.data_request (Event)
    data_ready,    \* self.data_ready (Event)
    data_stop,     \* self.data_stop (Event)
    device,        \* self._device is not None
    acq_thread,    \* self._acq_thread: NoThread or a thread
    channels,      \* self._channels
    rate,          \* self._rate
    t_integrate,   \* self._t_integrate
    status,        \* self.status
    \* --- the device (u6.U6)
    devConfig,     \* the configuration of the stream set up by streamConfig
                   \* and not yet ended by streamStop
    devStreaming,  \* the device is streaming (streamStart .. streamStop)
    \* --- collection threads: position and locals of _acquire_loop
    tpc, l_channels, l_rate, l_nchannels, count, error,
    \* --- consumer: position, pending call and locals
    cpc, caller, arg, restart, win, cret,
    polling,       \* LJSAApp._poll is still scheduled (self.after)
    \* --- history
    appended,      \* packets appended since the last buffer.clear()
    fresh,         \* data_ready was raised and no drain has begun since
    stale,         \* the running fetch_data began without a fresh data_ready
    stopPending,   \* stop_acquisition raised data_stop for a live thread
    wasStopped,    \* a stop_acquisition or an in-stream abort has happened
    restartPending,\* start_acquisition returned True after a stop or abort
    cycleMissed,   \* sum of raw['missed'] appended since the last
                   \* buffer.clear()
    due,           \* what the cycle that raised data_ready had appended,
                   \* as the running fetch_data found it (NoDue: the fetch
                   \* began without a fresh data_ready, or none is running)
    stopIdle,      \* the running stop_acquisition was called from the
                   \* event loop with no collection thread alive
    \* --- DataHandler: one window written to a file and read back
    fpc,           \* "off", or "new" -> "saved" -> "loaded"
    fwin,          \* the window handed to save_one
    flines,        \* the lines of the file
    floaded        \* what load_one returns (or the exception it raises)

vars == << buffer, data_request, data_ready, data_stop, device, acq_thread,
           channels, rate, t_integrate, status, devConfig, devStreaming,
           tpc, l_channels, l_rate, l_nchannels, count, error,
           cpc, caller, arg, restart, win, cret, polling,
           appended, fresh, stale, stopPending, wasStopped, restartPending,
           cycleMissed, due, stopIdle, fpc, fwin, flines, floaded >>

sharedVars == << buffer, data_request, data_ready, data_stop, device,
                 acq_thread, channels, rate, t_integrate, status >>
devVars == << devConfig, devStreaming >>
threadVars == << tpc, l_channels, l_rate, l_nchannels, count, error >>
consumerVars == << cpc, caller, arg, restart, win, cret, polling >>
histVars == << appended, fresh, stale, stopPending, wasStopped,
              restartPending, cycleMissed, due, stopIdle >>
fileVars == << fpc, fwin, flines, floaded >>

\* ----------------------------------------------------------------- helpers
NoConfig == [n |-> 0, ch |-> << >>, rate |-> 0]
NoRet == [kind |-> "none", res |-> "", pkts |-> << >>, rate |-> 0]
NoDue == [n |-> 0, missed |-> 0, known |-> FALSE]
NoCall == [ch |-> << >>, rate |-> NoArg, time |-> NoArg, another |-> FALSE]

\* Thread.is_alive()
IsAlive(t) == t # NoThread /\ tpc[t] # "dead"

\* StreamReader.is_running
is_running == acq_thread # NoThread /\ IsAlive(acq_thread)

AliveThreads == {t \in Threads : tpc[t] # "dead"}

\* The comparison of start_acquisition: rate > MAXSAMPLERATE / len(channels)
\* (a true division; for integers the same as rate * len > MAXSAMPLERATE).
RateTooHigh(r, n) == r * n > MAXSAMPLERATE

\* The condition of the packet loop with <= for <.
BelowOrAtTarget(c, tm, r, n) == c <= tm * r * n

\* The condition of the packet loop: count < t_integrate * rate * nchannels.
BelowTarget(c, tm, r, n) == c < tm * r * n

\* StreamReader.__init__, and no thread, call or fetch so far.
ReaderInit ==
    /\ buffer = << >>
    /\ data_request = FALSE
    /\ data_ready = FALSE
    /\ data_stop = FALSE
    /\ device = FALSE
    /\ acq_thread = NoThread
    /\ channels = << >>
    /\ rate = 5000
    /\ t_integrate = 2
    /\ status = ""
    /\ devConfig = NoConfig
    /\ devStreaming = FALSE
    /\ tpc = [t \in Threads |-> "dead"]
    /\ l_channels = [t \in Threads |-> << >>]
    /\ l_rate = [t \in Threads |-> 0]
    /\ l_nchannels = [t \in Threads |-> 0]
    /\ count = [t \in Threads |-> 0]
    /\ error = [t \in Threads |-> FALSE]
    /\ cpc = "idle"
    /\ caller = "none"
    /\ arg = NoCall
    /\ restart = FALSE
    /\ win = << >>
    /\ cret = NoRet
    /\ polling = TRUE
    /\ appended = 0
    /\ fresh = FALSE
    /\ stale = FALSE
    /\ stopPending = FALSE
    /\ wasStopped = FALSE
    /\ restartPending = FALSE
    /\ cycleMissed = 0
    /\ due = NoDue
    /\ stopIdle = FALSE

\* DataHandler.__init__: nothing is written or read.
NoWindow == [rate |-> 0, n |-> 0, channels |-> << >>, dropped |-> 0]
NoLoad == [res |-> "none", rate |-> 0, n |-> 0, channels |-> << >>,
           dropped |-> 0]

Init ==
    /\ ReaderInit
    /\ fpc = "off"
    /\ fwin = NoWindow
    /\ flines = << >>
    /\ floaded = NoLoad

\* ------------------------------------------------------ collection thread
\* One raw result of next(stream), appended by a thread whose snapshot of
\* the configuration is (ch, r). age counts the buffer.clear() calls since
\* the packet was appended (counted up to MaxAge): packets of one cycle have
\* the same age. idx is the packet's place among those of its cycle.
Packet(sz, m, ch, r) ==
    [n |-> sz, missed |-> m, age |-> 0, idx |-> appended + 1, ch |-> ch,
     rate |-> r]

RECURSIVE Aged(_)
Aged(pkts) ==
    IF pkts = << >> THEN << >>
    ELSE << [Head(pkts) EXCEPT !.age = IF @ < MaxAge THEN @ + 1 ELSE @] >>
         \o Aged(Tail(pkts))

Goto(t, l) == tpc' = [tpc EXCEPT ![t] = l]

\* The thread ends: by leaving _acquire_loop or through an unhandled
\* exception. Its locals no longer exist.
Dies(t) ==
    /\ tpc' = [tpc EXCEPT ![t] = "dead"]
    /\ l_channels' = [l_channels EXCEPT ![t] = << >>]
    /\ l_rate' = [l_rate EXCEPT ![t] = 0]
    /\ l_nchannels' = [l_nchannels EXCEPT ![t] = 0]
    /\ count' = [count EXCEPT ![t] = 0]
    /\ error' = [error EXCEPT ![t] = FALSE]
    /\ stopPending' = FALSE

\* dev = self._device; try: dev.streamStop() except: pass; error = None
T_Init(t) ==
    /\ tpc[t] = "t_init"
    /\ Goto(t, "t_while")
    /\ devStreaming' = FALSE
    /\ devConfig' = NoConfig
    /\ error' = [error EXCEPT ![t] = FALSE]
    /\ UNCHANGED << fileVars, sharedVars, l_channels, l_rate, l_nchannels,
                    count, consumerVars, histVars >>

\* while not self.data_stop.is_set():
T_While(t) ==
    /\ tpc[t] = "t_while"
    /\ Goto(t, IF data_stop THEN "t_exit" ELSE "t_wait")
    /\ UNCHANGED << fileVars, sharedVars, devVars, l_channels, l_rate, l_nchannels,
                    count, error, consumerVars, histVars >>

\* self.data_request.wait()
T_Wait(t) ==
    /\ tpc[t] = "t_wait"
    /\ data_request
    /\ Goto(t, "t_status")
    /\ UNCHANGED << fileVars, sharedVars, devVars, l_channels, l_rate, l_nchannels,
                    count, error, consumerVars, histVars >>

\* self.status = "Waiting"
T_StatusWaiting(t) ==
    /\ tpc[t] = "t_status"
    /\ status' = "Waiting"
    /\ Goto(t, "t_clr_ready")
    /\ UNCHANGED << fileVars, buffer, data_request, data_ready, data_stop, device,
                    acq_thread, channels, rate, t_integrate, devVars,
                    l_channels, l_rate, l_nchannels, count, error,
                    consumerVars, histVars >>

\* The thread goes on to buffer.clear() without self.data_ready.clear().
T_ClearReadyLeftOut(t) ==
    /\ tpc[t] = "t_clr_ready"
    /\ Goto(t, "t_clr_buf")
    /\ UNCHANGED << fileVars, sharedVars, devVars, l_channels, l_rate,
                    l_nchannels, count, error, consumerVars, histVars >>

\* self.data_ready.clear()
T_ClearReady(t) ==
    /\ tpc[t] = "t_clr_ready"
    /\ data_ready' = FALSE
    /\ Goto(t, "t_clr_buf")
    /\ UNCHANGED << fileVars, buffer, data_request, data_stop, device, acq_thread,
                    channels, rate, t_integrate, status, devVars,
                    l_channels, l_rate, l_nchannels, count, error,
                    consumerVars, histVars >>

\* self.buffer.clear()
T_ClearBuffer(t) ==
    /\ tpc[t] = "t_clr_buf"
    /\ buffer' = << >>
    /\ win' = Aged(win)
    /\ cret' = [cret EXCEPT !.pkts = Aged(@)]
    /\ Goto(t, "t_snap_ch")
    /\ appended' = 0
    /\ cycleMissed' = 0
    /\ fresh' = FALSE
    /\ UNCHANGED << fileVars, data_request, data_ready, data_stop, device, acq_thread,
                    channels, rate, t_integrate, status, devVars,
                    l_channels, l_rate, l_nchannels, count, error,
                    cpc, caller, arg, restart, polling, stale,
                    stopPending, wasStopped, restartPending, due,
                    stopIdle >>

\* channels = self._channels
T_SnapChannels(t) ==
    /\ tpc[t] = "t_snap_ch"
    /\ l_channels' = [l_channels EXCEPT ![t] = channels]
    /\ Goto(t, "t_snap_rate")
    /\ UNCHANGED << fileVars, sharedVars, devVars, l_rate, l_nchannels, count, error,
                    consumerVars, histVars >>

\* rate = self._rate
T_SnapRate(t) ==
    /\ tpc[t] = "t_snap_rate"
    /\ l_rate' = [l_rate EXCEPT ![t] = rate]
    /\ Goto(t, "t_snap_n")
    /\ UNCHANGED << fileVars, sharedVars, devVars, l_channels, l_nchannels, count,
                    error, consumerVars, histVars >>

\* nchannels = len(self._channels)
\* if nchannels == 0: self.data_stop.set(); break
T_SnapN(t) ==
    /\ tpc[t] = "t_snap_n"
    /\ l_nchannels' = [l_nchannels EXCEPT ![t] = Len(channels)]
    /\ IF Len(channels) = 0
       THEN /\ data_stop' = TRUE
            /\ Goto(t, "t_exit")
       ELSE /\ data_stop' = data_stop
            /\ Goto(t, "t_config")
    /\ UNCHANGED << fileVars, buffer, data_request, data_ready, device, acq_thread,
                    channels, rate, t_integrate, status, devVars,
                    l_channels, l_rate, count, error, consumerVars,
                    histVars >>

\* dev.streamConfig(NumChannels=nchannels, ChannelNumbers=channels, ...,
\* ScanFrequency=rate), count = 0, stream = dev.streamData(convert=False)
T_ConfigOk(t) ==
    /\ tpc[t] = "t_config"
    /\ devConfig' = [n |-> l_nchannels[t], ch |-> l_channels[t],
                     rate |-> l_rate[t]]
    /\ count' = [count EXCEPT ![t] = 0]
    /\ Goto(t, "t_status_streaming")
    /\ UNCHANGED << fileVars, sharedVars, devStreaming, l_channels, l_rate,
                    l_nchannels, error, consumerVars, histVars >>

\* except Exception as e: self.status = "Error: %s" % e; continue
T_ConfigFail(t) ==
    /\ tpc[t] = "t_config"
    /\ status' = "Error: streamConfig"
    /\ Goto(t, "t_while")
    /\ restartPending' = FALSE
    /\ UNCHANGED << fileVars, buffer, data_request, data_ready, data_stop, device,
                    acq_thread, channels, rate, t_integrate, devVars,
                    l_channels, l_rate, l_nchannels, count, error,
                    consumerVars, fresh, stale, stopPending,
                    wasStopped,
                    appended, cycleMissed, due, stopIdle >>

\* self.status = "Streaming"
T_StatusStreaming(t) ==
    /\ tpc[t] = "t_status_streaming"
    /\ status' = "Streaming"
    /\ Goto(t, "t_start")
    /\ UNCHANGED << fileVars, buffer, data_request, data_ready, data_stop, device,
                    acq_thread, channels, rate, t_integrate, devVars,
                    l_channels, l_rate, l_nchannels, count, error,
                    consumerVars, histVars >>

\* dev.streamStart()
T_StreamStartOk(t) ==
    /\ tpc[t] = "t_start"
    /\ devStreaming' = TRUE
    /\ Goto(t, "t_loop")
    /\ UNCHANGED << fileVars, sharedVars, devConfig, l_channels, l_rate, l_nchannels,
                    count, error, consumerVars, histVars >>

\* dev.streamStart() raises: nothing in _acquire_loop catches it.
T_StreamStartFail(t) ==
    /\ tpc[t] = "t_start"
    /\ Dies(t)
    /\ restartPending' = FALSE
    /\ UNCHANGED << fileVars, sharedVars, devVars, consumerVars, fresh, stale,
                    wasStopped,
                    appended, cycleMissed, due, stopIdle >>

\* while count < self._t_integrate * self._rate * nchannels:
T_LoopCond(t) ==
    /\ tpc[t] = "t_loop"
    /\ Goto(t, IF BelowTarget(count[t], t_integrate, rate, l_nchannels[t])
               THEN "t_chk_stop" ELSE "t_stream_stop")
    /\ UNCHANGED << fileVars, sharedVars, devVars, l_channels, l_rate, l_nchannels,
                    count, error, consumerVars, histVars >>

\* if self.data_stop.is_set(): break
T_CheckStop(t) ==
    /\ tpc[t] = "t_chk_stop"
    /\ Goto(t, IF data_stop THEN "t_stream_stop" ELSE "t_next")
    /\ UNCHANGED << fileVars, sharedVars, devVars, l_channels, l_rate, l_nchannels,
                    count, error, consumerVars, histVars >>

\* raw = next(stream); count += raw['numPackets'] * streamSamplesPerPacket;
\* self.buffer.append(raw)
T_NextPacket(t) ==
    /\ tpc[t] = "t_next"
    /\ \E sz \in PacketSizes, m \in MissedCounts :
          /\ count' = [count EXCEPT ![t] = @ + sz]
          /\ buffer' = Append(buffer,
                 Packet(sz, m, l_channels[t], l_rate[t]))
          /\ cycleMissed' = cycleMissed + m
    /\ appended' = appended + 1
    /\ Goto(t, "t_loop")
    /\ UNCHANGED << fileVars, data_request, data_ready, data_stop, device, acq_thread,
                    channels, rate, t_integrate, status, devVars,
                    l_channels, l_rate, l_nchannels, error, consumerVars,
                    fresh, stale, stopPending, wasStopped, restartPending,
                    due, stopIdle >>

\* raw = next(stream) is None: self.status = "Error: no data"; continue
T_NextNone(t) ==
    /\ tpc[t] = "t_next"
    /\ status' = "Error: no data"
    /\ Goto(t, "t_loop")
    /\ UNCHANGED << fileVars, buffer, data_request, data_ready, data_stop, device,
                    acq_thread, channels, rate, t_integrate, devVars,
                    l_channels, l_rate, l_nchannels, count, error,
                    consumerVars, histVars >>

\* next(stream) raises: self.data_stop.set(); error = e; break
T_NextError(t) ==
    /\ tpc[t] = "t_next"
    /\ data_stop' = TRUE
    /\ error' = [error EXCEPT ![t] = TRUE]
    /\ Goto(t, "t_stream_stop")
    /\ wasStopped' = TRUE
    /\ restartPending' = FALSE
    /\ UNCHANGED << fileVars, buffer, data_request, data_ready, device, acq_thread,
                    channels, rate, t_integrate, status, devVars,
                    l_channels, l_rate, l_nchannels, count, consumerVars,
                    fresh, stale, stopPending,
                    appended, cycleMissed, due, stopIdle >>

\* dev.streamStop()
T_StreamStopOk(t) ==
    /\ tpc[t] = "t_stream_stop"
    /\ devStreaming' = FALSE
    /\ devConfig' = NoConfig
    /\ Goto(t, "t_clr_req")
    /\ UNCHANGED << fileVars, sharedVars, l_channels, l_rate, l_nchannels,
                    count, error, consumerVars, histVars >>

\* dev.streamStop() raises: nothing in _acquire_loop catches it.
T_StreamStopFail(t) ==
    /\ tpc[t] = "t_stream_stop"
    /\ Dies(t)
    /\ restartPending' = FALSE
    /\ UNCHANGED << fileVars, sharedVars, devVars, consumerVars, fresh, stale,
                    wasStopped,
                    appended, cycleMissed, due, stopIdle >>

\* if error is None: self.data_request.clear()
T_ClearRequest(t) ==
    /\ tpc[t] = "t_clr_req"
    /\ data_request' = IF error[t] THEN data_request ELSE FALSE
    /\ Goto(t, "t_chk_ready")
    /\ UNCHANGED << fileVars, buffer, data_ready, data_stop, device, acq_thread,
                    channels, rate, t_integrate, status, devVars,
                    l_channels, l_rate, l_nchannels, count, error,
                    consumerVars, histVars >>

\* if not self.data_stop.is_set():
T_CheckReady(t) ==
    /\ tpc[t] = "t_chk_ready"
    /\ Goto(t, IF data_stop THEN "t_while" ELSE "t_set_ready")
    /\ UNCHANGED << fileVars, sharedVars, devVars, l_channels, l_rate, l_nchannels,
                    count, error, consumerVars, histVars >>

\* self.data_ready.set()
T_SetReady(t) ==
    /\ tpc[t] = "t_set_ready"
    /\ data_ready' = TRUE
    /\ fresh' = TRUE
    /\ restartPending' = FALSE
    /\ Goto(t, "t_while")
    /\ UNCHANGED << fileVars, buffer, data_request, data_stop, device, acq_thread,
                    channels, rate, t_integrate, status, devVars,
                    l_channels, l_rate, l_nchannels, count, error,
                    consumerVars, stale, stopPending, wasStopped,
                    appended, cycleMissed, due, stopIdle >>

\* if error is None: self.status = "Stopped."
\* else: self.status = "Aborted: %s" % error
T_Exit(t) ==
    /\ tpc[t] = "t_exit"
    /\ status' = IF error[t] THEN "Aborted" ELSE "Stopped."
    /\ Dies(t)
    /\ UNCHANGED << fileVars, buffer, data_request, data_ready, data_stop, device,
                    acq_thread, channels, rate, t_integrate, devVars,
                    consumerVars, fresh, stale, wasStopped,
                    restartPending,
                    appended, cycleMissed, due, stopIdle >>

\* ---------------------------------------------------------------- consumer
Ret(k, r) == [kind |-> k, res |-> r, pkts |-> << >>, rate |-> 0]

\* The thread object start_acquisition creates: one that is not running.
NewThread == CHOOSE t \in Threads \ AliveThreads :
                 \A u \in Threads \ AliveThreads : t <= u

\* The test of start_acquisition with its "not" left out.
NeedsThreadNotDropped == acq_thread = NoThread \/ IsAlive(acq_thread)

\* if self._acq_thread is None or not self._acq_thread.is_alive():
NeedsThread == acq_thread = NoThread \/ ~IsAlive(acq_thread)

\* LJSAApp.start / a restart: self._source.start_acquisition()
C_CallStart ==
    /\ cpc = "idle"
    /\ cpc' = "sa_validate"
    /\ UNCHANGED << fileVars, sharedVars, devVars, threadVars, caller, arg, restart,
                    win, cret, polling, histVars >>

\* start_acquisition: connect() raises.
C_StartNoDevice ==
    /\ cpc = "sa_validate"
    /\ ~device
    /\ status' = "No hardware connected."
    /\ cret' = Ret("start", "False")
    /\ cpc' = "sa_done"
    /\ UNCHANGED << fileVars, buffer, data_request, data_ready, data_stop, device,
                    acq_thread, channels, rate, t_integrate, devVars,
                    threadVars, caller, arg, restart, win, polling,
                    histVars >>

\* start_acquisition: the device is there (or connect() succeeds), then the
\* checks of the channel list and of the rate.
C_StartValidate ==
    /\ cpc = "sa_validate"
    /\ device' = TRUE
    /\ IF Len(channels) = 0
       THEN /\ status' = "No channels selected."
            /\ cret' = Ret("start", "False")
            /\ cpc' = "sa_done"
       ELSE IF RateTooHigh(rate, Len(channels))
       THEN /\ status' = "Sample rate too high"
            /\ cret' = Ret("start", "False")
            /\ cpc' = "sa_done"
       ELSE /\ status' = status
            /\ cret' = cret
            /\ cpc' = "sa_alive"
    /\ UNCHANGED << fileVars, buffer, data_request, data_ready, data_stop, acq_thread,
                    channels, rate, t_integrate, devVars, threadVars,
                    caller, arg, restart, win, polling, histVars >>

\* if self._acq_thread is None or not self._acq_thread.is_alive():
C_StartCheckAlive ==
    /\ cpc = "sa_alive"
    /\ cpc' = IF NeedsThread THEN "sa_clr" ELSE "sa_req"
    /\ UNCHANGED << fileVars, sharedVars, devVars, threadVars, caller, arg, restart,
                    win, cret, polling, histVars >>

\* self.data_stop.clear()
C_StartClearStop ==
    /\ cpc = "sa_clr"
    /\ data_stop' = FALSE
    /\ cpc' = "sa_spawn"
    /\ UNCHANGED << fileVars, buffer, data_request, data_ready, device, acq_thread,
                    channels, rate, t_integrate, status, devVars,
                    threadVars, caller, arg, restart, win, cret, polling,
                    histVars >>

\* self._acq_thread = threading.Thread(target=self._acquire_loop, ...)
\* self._acq_thread.start()
C_StartSpawn ==
    /\ cpc = "sa_spawn"
    /\ Threads \ AliveThreads # {}
    /\ acq_thread' = NewThread
    /\ tpc' = [tpc EXCEPT ![NewThread] = "t_init"]
    /\ cpc' = "sa_req"
    /\ UNCHANGED << fileVars, buffer, data_request, data_ready, data_stop, device,
                    channels, rate, t_integrate, status, devVars,
                    l_channels, l_rate, l_nchannels, count, error,
                    caller, arg, restart, win, cret, polling, histVars >>

\* self.data_request.set(); return True
C_StartRequest ==
    /\ cpc = "sa_req"
    /\ data_request' = TRUE
    /\ cret' = Ret("start", "True")
    /\ restartPending' = wasStopped
    /\ cpc' = "sa_done"
    /\ UNCHANGED << fileVars, buffer, data_ready, data_stop, device, acq_thread,
                    channels, rate, t_integrate, status, devVars,
                    threadVars, caller, arg, restart, win, polling,
                    fresh, stale, stopPending, wasStopped,
                    appended, cycleMissed, due, stopIdle >>

\* start_acquisition has returned to the event loop.
C_StartReturn ==
    /\ cpc = "sa_done"
    /\ cpc' = "idle"
    /\ cret' = NoRet
    /\ UNCHANGED << fileVars, sharedVars, devVars, threadVars, caller, arg, restart,
                    win, polling, histVars >>

\* The Stop button, LJSAApp._quit: self._source.stop_acquisition()
C_CallStop ==
    /\ cpc = "idle"
    /\ cpc' = "st_clr"
    /\ caller' = "none"
    /\ stopIdle' = (AliveThreads = {})
    /\ UNCHANGED << fileVars, sharedVars, devVars, threadVars, arg, restart, win,
                    cret, polling, appended, fresh, stale, stopPending,
                    wasStopped, restartPending, cycleMissed, due >>

\* self.data_request.clear()
C_StopClearRequest ==
    /\ cpc = "st_clr"
    /\ data_request' = FALSE
    /\ restartPending' = FALSE
    /\ cpc' = "st_set"
    /\ UNCHANGED << fileVars, buffer, data_ready, data_stop, device, acq_thread,
                    channels, rate, t_integrate, status, devVars,
                    threadVars, caller, arg, restart, win, cret, polling,
                    fresh, stale, stopPending, wasStopped,
                    appended, cycleMissed, due, stopIdle >>

\* self.data_stop.set()
C_StopSetStop ==
    /\ cpc = "st_set"
    /\ data_stop' = TRUE
    /\ stopPending' = (AliveThreads # {})
    /\ wasStopped' = TRUE
    /\ cpc' = "st_join"
    /\ UNCHANGED << fileVars, buffer, data_request, data_ready, device, acq_thread,
                    channels, rate, t_integrate, status, devVars,
                    threadVars, caller, arg, restart, win, cret, polling,
                    fresh, stale, restartPending,
                    appended, cycleMissed, due, stopIdle >>

\* Where stop_acquisition returns to.
AfterStop == IF caller = "set_channels" THEN "sc_assign"
             ELSE IF caller = "set_sampling" THEN "ss_assign"
             ELSE "st_done"

\* if self._acq_thread: (no thread was ever started)
C_StopNoThread ==
    /\ cpc = "st_join"
    /\ acq_thread = NoThread
    /\ cpc' = AfterStop
    /\ UNCHANGED << fileVars, sharedVars, devVars, threadVars, caller, arg, restart,
                    win, cret, polling, histVars >>

\* self._acq_thread.join(2*self._t_integrate): the thread has ended.
C_StopJoined ==
    /\ cpc = "st_join"
    /\ acq_thread # NoThread
    /\ ~IsAlive(acq_thread)
    /\ cpc' = "st_chk"
    /\ UNCHANGED << fileVars, sharedVars, devVars, threadVars, caller, arg, restart,
                    win, cret, polling, histVars >>

\* self._acq_thread.join(2*self._t_integrate): the timeout has passed.
C_StopJoinTimeout ==
    /\ cpc = "st_join"
    /\ acq_thread # NoThread
    /\ IsAlive(acq_thread)
    /\ cpc' = "st_chk"
    /\ UNCHANGED << fileVars, sharedVars, devVars, threadVars, caller, arg, restart,
                    win, cret, polling, histVars >>

\* if self._acq_thread.is_alive():
\*     self.status = "Acquisiton thread timed out"
C_StopCheckAlive ==
    /\ cpc = "st_chk"
    /\ status' = IF IsAlive(acq_thread) THEN "Acquisiton thread timed out"
                 ELSE status
    /\ cpc' = AfterStop
    /\ UNCHANGED << fileVars, buffer, data_request, data_ready, data_stop, device,
                    acq_thread, channels, rate, t_integrate, devVars,
                    threadVars, caller, arg, restart, win, cret, polling,
                    histVars >>

\* stop_acquisition has returned to the event loop.
C_StopReturn ==
    /\ cpc = "st_done"
    /\ cpc' = "idle"
    /\ stopIdle' = FALSE
    /\ UNCHANGED << fileVars, sharedVars, devVars, threadVars, caller, arg, restart,
                    win, cret, polling, appended, fresh, stale, stopPending,
                    wasStopped, restartPending, cycleMissed, due >>

\* LJSAApp._on_channel_change: self._source.set_channels(channels)
C_CallSetChannels(ch) ==
    /\ cpc = "idle"
    /\ arg' = [arg EXCEPT !.ch = ch]
    /\ caller' = "set_channels"
    /\ cpc' = "sc_chk"
    /\ UNCHANGED << fileVars, sharedVars, devVars, threadVars, restart, win, cret,
                    polling, histVars >>

\* set_channels: if self.is_running():
C_SetChannelsCheck ==
    /\ cpc = "sc_chk"
    /\ restart' = is_running
    /\ cpc' = IF is_running THEN "st_clr" ELSE "sc_assign"
    /\ UNCHANGED << fileVars, sharedVars, devVars, threadVars, caller, arg, win, cret,
                    polling, histVars >>

\* self._channels = channels, then self.start_acquisition() after a stop
C_SetChannelsAssign ==
    /\ cpc = "sc_assign"
    /\ channels' = arg.ch
    /\ cpc' = IF restart THEN "sa_validate" ELSE "idle"
    /\ arg' = NoCall
    /\ caller' = "none"
    /\ restart' = FALSE
    /\ UNCHANGED << fileVars, buffer, data_request, data_ready, data_stop, device,
                    acq_thread, rate, t_integrate, status, devVars,
                    threadVars, win, cret, polling, histVars >>

\* The traces on _freq and _time: self._source.set_sampling(rate=, time=)
C_CallSetSampling(r, tm) ==
    /\ cpc = "idle"
    /\ arg' = [arg EXCEPT !.rate = r, !.time = tm]
    /\ caller' = "set_sampling"
    /\ cpc' = "ss_chk"
    /\ UNCHANGED << fileVars, sharedVars, devVars, threadVars, restart, win, cret,
                    polling, histVars >>

\* set_sampling: if self.is_running(): ... restart = True
C_SetSamplingCheck ==
    /\ cpc = "ss_chk"
    /\ restart' = is_running
    /\ cpc' = IF is_running THEN "st_clr" ELSE "ss_assign"
    /\ UNCHANGED << fileVars, sharedVars, devVars, threadVars, caller, arg, win, cret,
                    polling, histVars >>

\* if rate is not None: self._rate = rate
\* if time is not None: self._t_integrate = time
\* if restart: self.start_acquisition()
C_SetSamplingAssign ==
    /\ cpc = "ss_assign"
    /\ rate' = IF arg.rate # NoArg THEN arg.rate ELSE rate
    /\ t_integrate' = IF arg.time # NoArg THEN arg.time ELSE t_integrate
    /\ cpc' = IF restart THEN "sa_validate" ELSE "idle"
    /\ arg' = NoCall
    /\ caller' = "none"
    /\ restart' = FALSE
    /\ UNCHANGED << fileVars, buffer, data_request, data_ready, data_stop, device,
                    acq_thread, channels, status, devVars, threadVars, win,
                    cret, polling, histVars >>

\* LJSAApp._poll: if self._source.data_ready.is_set(): is false; the poll
\* has no data and is scheduled again.
C_PollNoData ==
    /\ cpc = "idle"
    /\ polling
    /\ ~data_ready
    /\ UNCHANGED vars

\* LJSAApp._poll: if self._source.data_ready.is_set():
\*     new_data = self._source.fetch_data()
C_PollFetch(another) ==
    /\ cpc = "idle"
    /\ polling
    /\ data_ready
    /\ arg' = [arg EXCEPT !.another = another]
    /\ cpc' = "fd_wait"
    /\ UNCHANGED << fileVars, sharedVars, devVars, threadVars, caller, restart, win,
                    cret, polling, histVars >>

\* fetch_data: self.data_ready.wait(); data = {}; dropped = 0
C_FetchWait ==
    /\ cpc = "fd_wait"
    /\ data_ready
    /\ win' = << >>
    /\ stale' = ~fresh
    /\ fresh' = FALSE
    /\ due' = IF fresh
              THEN [n |-> appended, missed |-> cycleMissed, known |-> TRUE]
              ELSE NoDue
    /\ cpc' = "fd_len"
    /\ UNCHANGED << fileVars, sharedVars, devVars, threadVars, caller, arg, restart,
                    cret, polling, stopPending, wasStopped,
                    restartPending, appended, cycleMissed, stopIdle >>

\* while len(self.buffer) > 0:
C_FetchLen ==
    /\ cpc = "fd_len"
    /\ cpc' = IF Len(buffer) > 0 THEN "fd_pop" ELSE "fd_alive"
    /\ UNCHANGED << fileVars, sharedVars, devVars, threadVars, caller, arg, restart,
                    win, cret, polling, histVars >>

\* raw = self.buffer.popleft(); dropped += raw['missed'];
\* processed = ...; data[k].extend(v) / data[k] = v
\* popleft() of a deque emptied meanwhile raises IndexError.
C_FetchPop ==
    /\ cpc = "fd_pop"
    /\ IF Len(buffer) > 0
       THEN /\ win' = Append(win, Head(buffer))
            /\ buffer' = Tail(buffer)
            /\ cret' = cret
            /\ polling' = polling
            /\ cpc' = "fd_len"
       ELSE /\ win' = win
            /\ buffer' = buffer
            /\ cret' = Ret("fetch", "IndexError")
            /\ polling' = FALSE
            /\ cpc' = "fd_done"
    /\ UNCHANGED << fileVars, data_request, data_ready, data_stop, device, acq_thread,
                    channels, rate, t_integrate, status, devVars,
                    threadVars, caller, arg, restart, histVars >>

\* if another and self._acq_thread.is_alive():
C_FetchCheckAlive ==
    /\ cpc = "fd_alive"
    /\ cpc' = IF arg.another /\ IsAlive(acq_thread) THEN "fd_req"
              ELSE "fd_ret"
    /\ UNCHANGED << fileVars, sharedVars, devVars, threadVars, caller, arg, restart,
                    win, cret, polling, histVars >>

\* self.data_request.set()
C_FetchRequest ==
    /\ cpc = "fd_req"
    /\ data_request' = TRUE
    /\ cpc' = "fd_ret"
    /\ UNCHANGED << fileVars, buffer, data_ready, data_stop, device, acq_thread,
                    channels, rate, t_integrate, status, devVars,
                    threadVars, caller, arg, restart, win, cret, polling,
                    histVars >>

\* nchannels = len(data.keys()); npoints = max(map(len, data.values()))
\* return {'rate': self._rate, 'n': npoints, 'channels': data, ...}
\* max() of no values raises ValueError.
C_FetchReturn ==
    /\ cpc = "fd_ret"
    /\ IF Len(win) > 0
       THEN /\ cret' = [kind |-> "fetch", res |-> "window", pkts |-> win,
                        rate |-> rate]
            /\ polling' = polling
       ELSE /\ cret' = Ret("fetch", "ValueError")
            /\ polling' = FALSE
    /\ cpc' = "fd_done"
    /\ UNCHANGED << fileVars, sharedVars, devVars, threadVars, caller, arg, restart,
                    win, histVars >>

\* _poll goes on with the window (or the exception leaves _poll, which is
\* then not scheduled again).
C_FetchDone ==
    /\ cpc = "fd_done"
    /\ cpc' = "idle"
    /\ cret' = NoRet
    /\ win' = << >>
    /\ arg' = NoCall
    /\ stale' = FALSE
    /\ due' = NoDue
    /\ UNCHANGED << fileVars, sharedVars, devVars, threadVars, caller, restart,
                    polling, fresh, stopPending, wasStopped,
                    restartPending, appended, cycleMissed, stopIdle >>

\* ------------------------------------------------------------- DataHandler
\* A window as fetch_data returns it: 'channels' is the dict data, in the
\* order of its keys; a sample is a voltage in microvolts.
MaxPoints == 2
Samples == {0, 1500000, 1234567}
SampleSeqs == UNION {[1..k -> Samples] : k \in 1..MaxPoints}

Longest(chs) ==
    CHOOSE m \in {Len(chs[c].vals) : c \in 1..Len(chs)} :
        \A c \in 1..Len(chs) : Len(chs[c].vals) <= m

Shortest(chs) ==
    CHOOSE m \in {Len(chs[c].vals) : c \in 1..Len(chs)} :
        \A c \in 1..Len(chs) : Len(chs[c].vals) >= m

\* One channel, or two whose sequences differ in length by at most one
\* sample (the last packet of a cycle may end between two channels).
ChannelDicts ==
    {<< [key |-> "AIN0", vals |-> v] >> : v \in SampleSeqs}
    \cup {<< [key |-> "AIN0", vals |-> p[1]],
              [key |-> "AIN2", vals |-> p[2]] >> :
             p \in {q \in SampleSeqs \X SampleSeqs :
                       Len(q[1]) - Len(q[2]) \in {-1, 0, 1}}}

\* return {'rate': self._rate, 'n': npoints, 'channels': data, 'dropped': ..}
Windows ==
    {[rate |-> r, n |-> Longest(chs), channels |-> chs, dropped |-> d] :
        r \in Rates, chs \in ChannelDicts, d \in MissedCounts}

\* "{:>12.5e}".format(v): six significant digits.
Format5e(v) == IF v < 1000000 THEN v ELSE ((v + 5) \div 10) * 10

\* One whitespace-separated piece of a line: its text and whether a comma
\* is attached to it.
Token(v, c) == [text |-> v, comma |-> c]

\* "rate:      {:f}\n", "dropped:   {:d}\n", "points:    {:d}\n": a line with
\* a colon (rate, dropped and n are whole numbers here, printed in full).
FieldLine(name, v) ==
    [colon |-> TRUE, name |-> name, toks |-> << Token(v, FALSE) >>]

\* (nchan*"{:>12s},  ").rstrip(', ').format(*data['channels'].keys()):
\* every key but the last carries a comma.
HeaderLine(chs) ==
    [colon |-> FALSE, name |-> "",
     toks |-> [c \in 1..Len(chs) |-> Token(chs[c].key, c < Len(chs))]]

\* fstr.format(*z) for the i-th tuple z of zip(*data['channels'].values())
RowLine(chs, i) ==
    [colon |-> FALSE, name |-> "",
     toks |-> [c \in 1..Len(chs) |->
                  Token(Format5e(chs[c].vals[i]), c < Len(chs))]]

\* The lines data_to_lines yields; zip stops at the shortest channel.
data_to_lines(data) ==
    << FieldLine("rate", data.rate),
       FieldLine("dropped", data.dropped),
       FieldLine("points", data.n),
       HeaderLine(data.channels) >>
    \o [i \in 1..Shortest(data.channels) |-> RowLine(data.channels, i)]

\* load_one: the first line without a colon ends the fields and names the
\* channels.
HeaderAt(lines) ==
    CHOOSE i \in 1..Len(lines) :
        ~lines[i].colon /\ \A j \in 1..(i - 1) : lines[j].colon

Field(lines, name) ==
    lines[CHOOSE j \in 1..(HeaderAt(lines) - 1) : lines[j].name = name]
        .toks[1].text

\* load_one: chs = l.split() keeps the commas in the keys, and
\* float(pts[i]) of a piece with a comma raises ValueError.
load_one(lines) ==
    LET h == HeaderAt(lines)
        chs == lines[h].toks
        rows == [i \in 1..(Len(lines) - h) |-> lines[h + i].toks]
    IN  IF \E i \in 1..Len(rows) : \E c \in 1..Len(chs) : rows[i][c].comma
        THEN [res |-> "ValueError", rate |-> 0, n |-> 0,
              channels |-> << >>, dropped |-> 0]
        ELSE [res |-> "ok",
              rate |-> Field(lines, "rate"),
              n |-> Field(lines, "points"),
              channels |-> [c \in 1..Len(chs) |->
                  [key |-> chs[c],
                   vals |-> [i \in 1..Len(rows) |-> rows[i][c].text]]],
              dropped |-> Field(lines, "dropped")]

readerVars == << sharedVars, devVars, threadVars, consumerVars, histVars >>

\* save_one(fpath, data): fh.writelines(self.data_to_lines(data))
F_save_one ==
    /\ fpc = "new"
    /\ flines' = data_to_lines(fwin)
    /\ fpc' = "saved"
    /\ UNCHANGED << readerVars, fwin, floaded >>

\* load_one(fpath)
F_load_one ==
    /\ fpc = "saved"
    /\ floaded' = load_one(flines)
    /\ fpc' = "loaded"
    /\ UNCHANGED << readerVars, fwin, flines >>

\* A window is written to a file, and the file is read back.
FileInit ==
    /\ ReaderInit
    /\ fpc = "new"
    /\ fwin \in Windows
    /\ flines = << >>
    /\ floaded = NoLoad

FileNext == F_save_one \/ F_load_one

FileSpec == FileInit /\ [][FileNext]_vars

\* ------------------------------------------------------------ specification
ThreadStep(t) ==
    \/ T_Init(t)
    \/ T_While(t)
    \/ T_Wait(t)
    \/ T_StatusWaiting(t)
    \/ T_ClearReady(t)
    \/ T_ClearBuffer(t)
    \/ T_SnapChannels(t)
    \/ T_SnapRate(t)
    \/ T_SnapN(t)
    \/ T_ConfigOk(t)
    \/ T_ConfigFail(t)
    \/ T_StatusStreaming(t)
    \/ T_StreamStartOk(t)
    \/ T_StreamStartFail(t)
    \/ T_LoopCond(t)
    \/ T_CheckStop(t)
    \/ T_NextPacket(t)
    \/ T_NextNone(t)
    \/ T_NextError(t)
    \/ T_StreamStopOk(t)
    \/ T_StreamStopFail(t)
    \/ T_ClearRequest(t)
    \/ T_CheckReady(t)
    \/ T_SetReady(t)
    \/ T_Exit(t)

ConsumerStep ==
    \/ C_CallStart
    \/ C_StartNoDevice
    \/ C_StartValidate
    \/ C_StartCheckAlive
    \/ C_StartClearStop
    \/ C_StartSpawn
    \/ C_StartRequest
    \/ C_StartReturn
    \/ C_CallStop
    \/ C_StopClearRequest
    \/ C_StopSetStop
    \/ C_StopNoThread
    \/ C_StopJoined
    \/ C_StopJoinTimeout
    \/ C_StopCheckAlive
    \/ C_StopReturn
    \/ \E ch \in ChannelLists : C_CallSetChannels(ch)
    \/ C_SetChannelsCheck
    \/ C_SetChannelsAssign
    \/ \E r \in Rates : C_CallSetSampling(r, NoArg)
    \/ \E tm \in Times : C_CallSetSampling(NoArg, tm)
    \/ C_SetSamplingCheck
    \/ C_SetSamplingAssign
    \/ C_PollNoData
    \/ \E another \in BOOLEAN : C_PollFetch(another)
    \/ C_FetchWait
    \/ C_FetchLen
    \/ C_FetchPop
    \/ C_FetchCheckAlive
    \/ C_FetchRequest
    \/ C_FetchReturn
    \/ C_FetchDone

Next == ConsumerStep \/ \E t \in Threads : ThreadStep(t)

Spec == Init /\ [][Next]_vars

\* A step of the consumer inside a call it has begun.
ConsumerCallStep == cpc # "idle" /\ ConsumerStep

\* Fair scheduling. A collection thread that can take a step (it is not
\* blocked in data_request.wait()) eventually takes one; a call the consumer
\* has begun goes on unless it is blocked (in data_ready.wait()); and
\* LJSAApp._poll, scheduled again every 200 ms with self.after, fetches (with
\* the default another=True) when it finds data_ready raised. Nothing makes
\* the user start, stop or reconfigure.
FairSpec ==
    /\ Spec
    /\ \A t \in Threads : WF_vars(ThreadStep(t))
    /\ WF_vars(ConsumerCallStep)
    /\ SF_vars(C_PollFetch(TRUE))

\* Continuous mode. The user selects channels and sampling while no thread
\* was started yet, presses Start, and from then on only _poll runs, with
\* fetch_data(another=True): no stop_acquisition, no set_channels and no
\* set_sampling once a thread exists.
ContinuousConsumerStep ==
    \/ acq_thread = NoThread /\ \E ch \in ChannelLists : C_CallSetChannels(ch)
    \/ acq_thread = NoThread /\ \E r \in Rates : C_CallSetSampling(r, NoArg)
    \/ acq_thread = NoThread /\ \E tm \in Times : C_CallSetSampling(NoArg, tm)
    \/ C_SetChannelsCheck
    \/ C_SetChannelsAssign
    \/ C_SetSamplingCheck
    \/ C_SetSamplingAssign
    \/ C_CallStart
    \/ C_StartNoDevice
    \/ C_StartValidate
    \/ C_StartCheckAlive
    \/ C_StartClearStop
    \/ C_StartSpawn
    \/ C_StartRequest
    \/ C_StartReturn
    \/ C_PollNoData
    \/ C_PollFetch(TRUE)
    \/ C_FetchWait
    \/ C_FetchLen
    \/ C_FetchPop
    \/ C_FetchCheckAlive
    \/ C_FetchRequest
    \/ C_FetchReturn
    \/ C_FetchDone

\* The collection thread with a device that never fails: streamConfig,
\* streamStart and streamStop succeed and every next(stream) delivers a
\* packet. Nothing sets data_stop, so the thread never leaves its loop.
ContinuousThreadStep(t) ==
    \/ T_Init(t)
    \/ T_While(t)
    \/ T_Wait(t)
    \/ T_StatusWaiting(t)
    \/ T_ClearReady(t)
    \/ T_ClearBuffer(t)
    \/ T_SnapChannels(t)
    \/ T_SnapRate(t)
    \/ T_SnapN(t)
    \/ T_ConfigOk(t)
    \/ T_StatusStreaming(t)
    \/ T_StreamStartOk(t)
    \/ T_LoopCond(t)
    \/ T_CheckStop(t)
    \/ T_NextPacket(t)
    \/ T_StreamStopOk(t)
    \/ T_ClearRequest(t)
    \/ T_CheckReady(t)
    \/ T_SetReady(t)

ContinuousNext ==
    ContinuousConsumerStep \/ \E t \in Threads : ContinuousThreadStep(t)

\* Fair scheduling of both actors, as in FairSpec.
ContinuousSpec ==
    /\ Init
    /\ [][ContinuousNext]_vars
    /\ \A t \in Threads : WF_vars(ContinuousThreadStep(t))
    /\ WF_vars(cpc # "idle" /\ ContinuousConsumerStep)
    /\ SF_vars(C_PollFetch(TRUE))

\* ---------------------------------------------------------------- properties
\* fetch_data is past data_ready.wait() and has not left its popleft loop.
Draining == cpc \in {"fd_len", "fd_pop"}

\* The thread has executed buffer.clear() and has not left the packet loop
\* of that cycle.
Mutating(t) == tpc[t] \in {"t_snap_ch", "t_snap_rate", "t_snap_n",
                           "t_config", "t_status_streaming", "t_start",
                           "t_loop", "t_chk_stop", "t_next"}

\* C1: the consumer's drain never overlaps buffer mutation by the thread:
\* fetch_data is never between its data_ready wait and the end of its
\* popleft loop while a thread is between buffer.clear() and the end of its
\* packet loop.
C1_DrainNeverOverlaps == ~(Draining /\ \E t \in Threads : Mutating(t))

\* C2: once stop_acquisition has raised data_stop while a collection thread
\* is alive, that thread eventually terminates.
C2_StopTerminates == stopPending ~> ~stopPending

\* C3: a start_acquisition that returned True after a stop or an abort is
\* served: as long as the consumer has not stopped again and the device has
\* not failed, a collection thread is there to run the cycle that raises
\* data_ready.
C3_Restartable == restartPending => AliveThreads # {}

\* C4: at most one collection thread is alive.
C4_OneThread == Cardinality(AliveThreads) <= 1

\* C4 witness: start_acquisition returns True for a thread that outlived a
\* stop_acquisition (the join timed out), without a second thread.
C4_Witness ==
    /\ cpc = "sa_done"
    /\ cret.res = "True"
    /\ stopPending
    /\ Cardinality(AliveThreads) = 1

\* C5: a fetch issued after the window of a cycle was taken and before the
\* next cycle has raised data_ready gives "no data": it returns no window
\* and does not fail.
C5_DeliveredOnce == (cpc = "fd_done" /\ stale) => cret.res = "nodata"

\* C6: fetch_data never waits for a data_ready that cannot come: the
\* consumer is never inside data_ready.wait() with data_ready clear and no
\* collection thread alive.
C6_FetchReturns == ~(cpc = "fd_wait" /\ ~data_ready /\ AliveThreads = {})

\* C7: a thread that leaves its loop after an error of next(stream), with
\* packets in the buffer, has raised data_ready.
C7_AbortPublishes ==
    \A t \in Threads :
        (tpc[t] = "t_exit" /\ error[t] /\ Len(buffer) > 0) => data_ready

\* The constraints start_acquisition checks, for a stream configuration.
ValidConfig(c) ==
    /\ c.n > 0
    /\ Len(c.ch) > 0
    /\ ~RateTooHigh(c.rate, c.n)
    /\ ~RateTooHigh(c.rate, Len(c.ch))

\* C8: the device is never configured with an empty channel list or with
\* rate * |channels| > MAXSAMPLERATE.
C8_OnlyValidConfig == devConfig # NoConfig => ValidConfig(devConfig)

\* The messages start_acquisition leaves in self.status when it fails.
StartErrors == {"No hardware connected.", "No channels selected.",
                "Sample rate too high"}

\* C9: when start_acquisition returns True, data_request is raised and a
\* collection thread is alive; when it returns False, it has spawned no
\* thread and has left data_request alone.
C9_StartFailsFast ==
    [][ /\ (cpc = "sa_req" /\ cpc' = "sa_done")
            => (data_request' /\ is_running')
        /\ (cpc = "sa_validate" /\ cpc' = "sa_done")
            => /\ cret'.res = "False"
               /\ status' \in StartErrors
               /\ tpc' = tpc
               /\ acq_thread' = acq_thread
               /\ data_request' = data_request ]_vars

\* The packets of a window are those of one cycle, from its first on, and
\* were acquired under one configuration.
OneCycle(pkts) ==
    /\ \A i \in 1..Len(pkts) :
          /\ pkts[i].age = pkts[1].age
          /\ pkts[i].ch = pkts[1].ch
          /\ pkts[i].rate = pkts[1].rate
          /\ pkts[i].idx = i
    /\ (pkts[1].age = 0 => Len(pkts) = appended)

\* C10: every window fetch_data returns consists of the packets of a single
\* collection cycle, all of them, acquired under a single configuration.
C10_WindowOfOneCycle ==
    (cpc = "fd_done" /\ cret.res = "window") => OneCycle(cret.pkts)

\* dropped = 0; for every raw popped: dropped += raw['missed']
RECURSIVE Dropped(_)
Dropped(pkts) ==
    IF pkts = << >> THEN 0 ELSE Head(pkts).missed + Dropped(Tail(pkts))

\* C11: the dropped count of a window fetch_data returns for a fresh
\* data_ready is the sum of the 'missed' counts of all packets the thread
\* appended in the cycle that raised data_ready.
C11_DroppedIsCycleSum ==
    (cpc = "fd_done" /\ cret.res = "window" /\ due.known)
        => Dropped(cret.pkts) = due.missed

\* The samples processStreamData decodes from one raw result for one of its
\* channels, named by the cycle (age) and the place (idx) of the result.
Chunk(p) == [age |-> p.age, idx |-> p.idx]

\* The keys of processed.items(): the channels of the stream the raw result
\* came from.
Keys(p) == {p.ch[i] : i \in 1..Len(p.ch)}

\* data[k] after the popleft loop: for k, v in processed.items():
\* data[k].extend(v) if k in data else data[k] = v
RECURSIVE Decoded(_, _)
Decoded(pkts, k) ==
    IF pkts = << >> THEN << >>
    ELSE (IF k \in Keys(Head(pkts)) THEN << Chunk(Head(pkts)) >> ELSE << >>)
         \o Decoded(Tail(pkts), k)

\* C12: every channel sequence of a window fetch_data returns for a fresh
\* data_ready is the concatenation, in the order of arrival, of the samples
\* of every packet appended in the cycle: the first to the last, each once.
C12_DecodedInOrder ==
    (cpc = "fd_done" /\ cret.res = "window" /\ due.known)
        => \A k \in Keys(cret.pkts[1]) :
              /\ Len(Decoded(cret.pkts, k)) = due.n
              /\ \A i \in 1..Len(Decoded(cret.pkts, k)) :
                    Decoded(cret.pkts, k)[i]
                        = [age |-> cret.pkts[1].age, idx |-> i]

\* C13: a fetch_data that finds no packet in the buffer returns an explicit
\* empty-window marker: it does not fail and returns no malformed window.
C13_EmptyWindowMarker ==
    (cpc = "fd_done" /\ cret.kind = "fetch" /\ win = << >>)
        => cret.res = "empty"

\* C14: stop_acquisition called from the event loop while no collection
\* thread is alive changes nothing: the thread reference, the three Events,
\* the status and the configuration stay as they are, and no thread comes
\* alive.
C14_StopIdleNoOp ==
    [][ (stopIdle /\ cpc \in {"st_clr", "st_set", "st_join", "st_chk",
                              "st_done"})
            => UNCHANGED << acq_thread, data_request, data_ready, data_stop,
                            status, channels, rate, t_integrate, tpc >> ]_vars

\* The integration target of the cycle thread t runs: integration time x
\* rate x number of channels of its configuration.
Target(t) == t_integrate * l_rate[t] * l_nchannels[t]

\* C15: in a cycle without stop request and without device error the thread
\* receives a packet only while the running sum of the packet sample counts
\* is below integration time x rate x |channels|, and the cycle ends (and
\* raises data_ready) only with the sum at or above it: the sum reaches the
\* target with the last packet and no packet follows.
C15_StopsAtTarget ==
    [][ \A t \in Threads :
          /\ (tpc[t] = "t_next" /\ count'[t] # count[t] /\ ~data_stop)
                => count[t] < Target(t)
          /\ (tpc[t] = "t_chk_ready" /\ tpc'[t] = "t_set_ready")
                => count[t] >= Target(t) ]_vars

\* C15 witness: a cycle of channel 0 at 30000 Hz for 1 s has reached its
\* target of 30000 exactly, with one packet, and is about to raise
\* data_ready.
C15_Witness ==
    \E t \in Threads :
        /\ tpc[t] = "t_set_ready"
        /\ l_channels[t] = << 0 >>
        /\ l_rate[t] = 30000
        /\ t_integrate = 1
        /\ count[t] = 30000
        /\ appended = 1

\* The key of a loaded channel is the string k, without a comma.
SameKey(loadedKey, k) == loadedKey = Token(k, FALSE)

\* C16: a window written with save_one and read back with load_one has the
\* same sample rate, the same dropped count and, for every channel, the
\* same sequence: the same key, the same length and the same values up to
\* the printed precision.
C16_RoundTrip ==
    fpc = "loaded"
        => /\ floaded.res = "ok"
           /\ floaded.rate = fwin.rate
           /\ floaded.dropped = fwin.dropped
           /\ Len(floaded.channels) = Len(fwin.channels)
           /\ \A c \in 1..Len(fwin.channels) :
                 /\ SameKey(floaded.channels[c].key, fwin.channels[c].key)
                 /\ Len(floaded.channels[c].vals)
                        = Len(fwin.channels[c].vals)
                 /\ \A i \in 1..Len(fwin.channels[c].vals) :
                       floaded.channels[c].vals[i]
                           = Format5e(fwin.channels[c].vals[i])

\* C17: the 'rate' of a window fetch_data returns for a fresh data_ready is
\* the sample rate the device was configured with for the cycle that
\* produced the window's packets.
C17_WindowRate ==
    (cpc = "fd_done" /\ cret.res = "window" /\ due.known)
        => \A i \in 1..Len(cret.pkts) : cret.pkts[i].rate = cret.rate

\* C18: a cycle uses only the configuration it copied at its start: the
\* number of channels it configures the device with is that of the channel
\* list it copied, and the rate it reads when it evaluates the integration
\* target is the rate it copied. (The integration time is never copied.)
C18_SnapshotOnly ==
    \A t \in Threads :
        /\ tpc[t] = "t_config" => l_nchannels[t] = Len(l_channels[t])
        /\ tpc[t] = "t_loop" => rate = l_rate[t]

\* C19: when the thread executes buffer.clear() at the top of a cycle, the
\* buffer holds no completed window that fetch_data has not begun to drain.
C19_ClearsOnlyDrained ==
    \A t \in Threads :
        tpc[t] = "t_clr_buf" => ~(fresh /\ Len(buffer) > 0)

\* C20: while data_ready is set, no collection thread is between
\* buffer.clear() and the end of its packet loop.
C20_ReadyOnlyWhenQuiet == data_ready => \A t \in Threads : ~Mutating(t)

\* C20 witness: data_ready is still set, for a buffer that holds the
\* packets of a completed cycle, when the thread has been woken for the
\* next cycle and is about to run data_ready.clear().
C20_Witness ==
    /\ data_ready
    /\ Len(buffer) > 0
    /\ \E t \in Threads : tpc[t] = "t_clr_ready"

\* start_acquisition is returning True.
StartedOk == cpc = "sa_done" /\ cret.res = "True"

\* A collection thread has completed a cycle and raises data_ready.
RaisesReady == \E t \in Threads : tpc[t] = "t_set_ready"

\* C21: in continuous mode, with a device that never fails and both actors
\* scheduled fairly, data_ready is raised again and again after a
\* successful start_acquisition.
C21_ContinuousProgress == [](StartedOk => []<>RaisesReady)

\* C22: a collection thread stops being alive only by leaving
\* _acquire_loop at its end, where the status it writes is the terminal
\* "Stopped." or "Aborted: <error>": no device failure ends it otherwise.
C22_FailuresCaptured ==
    [][ \A t \in Threads :
          (tpc[t] # "dead" /\ tpc'[t] = "dead")
              => (tpc[t] = "t_exit" /\ status' \in {"Stopped.", "Aborted"})
      ]_vars

====
